---- MODULE Spec2Model ----
(***************************************************************************)
(* The DFA tokenizer of tokpar.py (class DFATokenizer).                    *)
(*                                                                         *)
(* A character is a one-character string, a text is a sequence of          *)
(* characters, a Tok is a record [type, value] whose value is a text.      *)
(* A caller p owns the DFATokenizer instance p (main builds one instance   *)
(* and calls tokenize on it once per sentence); the fields of instance p   *)
(* are state[p], current[p] and the list object tokens[tokensOf(p)].       *)
(***************************************************************************)
EXTENDS Integers, Sequences, FiniteSets, TLC

\* ---- bounds ----
\* longest input text of a call under Spec
MaxLen == 3
\* longest input text of a call when two callers run concurrently (SpecConc)
MaxLenConc == 2
\* longest input text of a call when the caller keeps returned lists (SpecKeep)
MaxLenKeep == 2

\* ---- characters ----
\* Representatives of the classes the code tells apart: str.isspace,
\* str.isalpha (lower and upper case), str.isdigit, the apostrophe, and the
\* rest. "(A)" stands for a character of the rest that has a lower case, such
\* as U+24B6 (circled A: not alphabetic, str.lower maps it to U+24D0, "(a)").
Whitespace == {" "}
Alpha == {"a", "A"}
Digit == {"1"}
Other == {"'", "(A)"}
Char == Whitespace \cup Alpha \cup Digit \cup Other
\* the characters of the inputs of concurrent callers: a letter, a digit and
\* a symbol, so that every exit from a run and every emission is interleaved
CharConc == {"a", "1", "(A)"}
\* the characters of the inputs of a caller that keeps returned lists
CharKeep == {"A", "1", "(A)", " "}

isspace(ch) == ch \in Whitespace
isalpha(ch) == ch \in Alpha
isdigit(ch) == ch \in Digit

\* str.lower on one character
lowerChar(ch) ==
    CASE ch = "A" -> "a"
      [] ch = "(A)" -> "(a)"
      [] OTHER -> ch

\* str.lower on a text
lower(value) == [k \in 1..Len(value) |-> lowerChar(value[k])]

\* all texts over S of length at most n
TextsUpTo(S, n) == UNION {[1..k -> S] : k \in 0..n}
Texts == TextsUpTo(Char, MaxLen)
TextsConc == TextsUpTo(CharConc, MaxLenConc)
TextsKeep == TextsUpTo(CharKeep, MaxLenKeep)

\* ---- the Tok dataclass ----
Tok(type, value) == [type |-> type, value |-> value]

\* ---- DFATokenizer: the methods as functions of the instance's fields ----
\* self is the record [state, current, tokens] of an instance's fields.

\* DFATokenizer.__init__
init == [state |-> "START", current |-> <<>>, tokens |-> <<>>]

\* reset without "self.tokens.clear()"
reset_keepsTokens(self) == [self EXCEPT !.state = "START", !.current = <<>>]

\* reset without "self.state = START"
reset_keepsState(self) == [self EXCEPT !.current = <<>>, !.tokens = <<>>]

\* DFATokenizer.reset
reset(self) == [self EXCEPT !.state = "START", !.current = <<>>, !.tokens = <<>>]

\* emit clearing self.current before the append, so that the token gets ""
emit_clearsFirst(self, type_) ==
    IF self.current # <<>>
    THEN [self EXCEPT !.tokens = Append(@, Tok(type_, <<>>)), !.current = <<>>]
    ELSE self

\* DFATokenizer.emit
emit(self, type_) ==
    IF self.current # <<>>
    THEN [self EXCEPT !.tokens = Append(@, Tok(type_, self.current)),
                      !.current = <<>>]
    ELSE self

\* the START branch without the isspace case: whitespace falls to the else
startBranch_noSpace(self, ch) ==
    IF isalpha(ch)
    THEN [self EXCEPT !.state = "WORD", !.current = Append(@, ch)]
    ELSE IF isdigit(ch)
    THEN [self EXCEPT !.state = "NUMBER", !.current = Append(@, ch)]
    ELSE [self EXCEPT !.tokens = Append(@, Tok("SYMBOL", <<ch>>))]

\* tokenize, the START branch of the loop body
startBranch(self, ch) ==
    IF isspace(ch) THEN self
    ELSE IF isalpha(ch)
    THEN [self EXCEPT !.state = "WORD", !.current = Append(@, ch)]
    ELSE IF isdigit(ch)
    THEN [self EXCEPT !.state = "NUMBER", !.current = Append(@, ch)]
    ELSE [self EXCEPT !.tokens = Append(@, Tok("SYMBOL", <<ch>>))]

\* leaving the word without the isdigit case: a digit falls to the else
wordExit_noDigit(self, ch) ==
    LET e == [emit(self, "WORD") EXCEPT !.state = "START"] IN
    IF isspace(ch) THEN e
    ELSE [e EXCEPT !.tokens = Append(@, Tok("SYMBOL", <<ch>>))]

\* leaving the word without "self.state = START"
wordExit_keepsState(self, ch) ==
    LET e == emit(self, "WORD") IN
    IF isspace(ch) THEN e
    ELSE IF isdigit(ch)
    THEN [e EXCEPT !.state = "NUMBER", !.current = Append(@, ch)]
    ELSE [e EXCEPT !.tokens = Append(@, Tok("SYMBOL", <<ch>>))]

\* tokenize, the WORD branch: leaving the word and reprocessing ch
wordExit(self, ch) ==
    LET e == [emit(self, "WORD") EXCEPT !.state = "START"] IN
    IF isspace(ch) THEN e
    ELSE IF isdigit(ch)
    THEN [e EXCEPT !.state = "NUMBER", !.current = Append(@, ch)]
    ELSE [e EXCEPT !.tokens = Append(@, Tok("SYMBOL", <<ch>>))]

\* the WORD branch without the test for the apostrophe
wordBranch_noApostrophe(self, ch) ==
    IF isalpha(ch)
    THEN [self EXCEPT !.current = Append(@, ch)]
    ELSE wordExit(self, ch)

\* tokenize, the WORD branch of the loop body
wordBranch(self, ch) ==
    IF isalpha(ch) \/ ch = "'"
    THEN [self EXCEPT !.current = Append(@, ch)]
    ELSE wordExit(self, ch)

\* leaving the number without the isalpha case: a letter falls to the else
numberExit_noAlpha(self, ch) ==
    LET e == [emit(self, "NUMBER") EXCEPT !.state = "START"] IN
    IF isspace(ch) THEN e
    ELSE [e EXCEPT !.tokens = Append(@, Tok("SYMBOL", <<ch>>))]

\* leaving the number without the reprocessing: ch is consumed and lost
numberExit_noReprocess(self, ch) ==
    [emit(self, "NUMBER") EXCEPT !.state = "START"]

\* leaving the number with the reprocessing done by a second full dispatch
\* that exits again: the letter that opens the word is emitted at once
numberExit_reEmits(self, ch) ==
    LET e == [emit(self, "NUMBER") EXCEPT !.state = "START"] IN
    IF isspace(ch) THEN e
    ELSE IF isalpha(ch)
    THEN [emit([e EXCEPT !.current = Append(@, ch)], "WORD") EXCEPT !.state = "START"]
    ELSE [e EXCEPT !.tokens = Append(@, Tok("SYMBOL", <<ch>>))]

\* tokenize, the NUMBER branch: leaving the number and reprocessing ch
numberExit(self, ch) ==
    LET e == [emit(self, "NUMBER") EXCEPT !.state = "START"] IN
    IF isspace(ch) THEN e
    ELSE IF isalpha(ch)
    THEN [e EXCEPT !.state = "WORD", !.current = Append(@, ch)]
    ELSE [e EXCEPT !.tokens = Append(@, Tok("SYMBOL", <<ch>>))]

\* the NUMBER branch taking every digit for the end of the number before it
numberBranch_emitEach(self, ch) ==
    IF isdigit(ch)
    THEN [emit(self, "NUMBER") EXCEPT !.current = <<ch>>]
    ELSE numberExit(self, ch)

\* tokenize, the NUMBER branch of the loop body
numberBranch(self, ch) ==
    IF isdigit(ch)
    THEN [self EXCEPT !.current = Append(@, ch)]
    ELSE numberExit(self, ch)

\* tokenize, one iteration of "for ch in text"
step(self, ch) ==
    IF self.state = "START" THEN startBranch(self, ch)
    ELSE IF self.state = "WORD" THEN wordBranch(self, ch)
    ELSE IF self.state = "NUMBER" THEN numberBranch(self, ch)
    ELSE self

\* the flush without its elif: a pending number is not emitted
flush_wordOnly(self) ==
    IF self.state = "WORD" THEN emit(self, "WORD") ELSE self

\* tokenize, the flush after the loop
flush(self) ==
    IF self.state = "WORD" THEN emit(self, "WORD")
    ELSE IF self.state = "NUMBER" THEN emit(self, "NUMBER")
    ELSE self

\* the normalisation lower-casing every token, whatever its type
normTok_lowerAll(t) == Tok(t.type, lower(t.value))

\* the normalisation without the lower-casing
normTok_noLower(t) == t

\* tokenize, the normalisation of one token
normTok(t) == IF t.type = "WORD" THEN Tok("WORD", lower(t.value)) ELSE t

\* tokenize, the normalisation loop: the list norm built from self.tokens
normalize(toks) == [k \in 1..Len(toks) |-> normTok(toks[k])]

\* tokenize, the loop over text[k..] from the fields self
RECURSIVE scan(_, _, _)
scan(self, text_, k) ==
    IF k > Len(text_) THEN self ELSE scan(step(self, text_[k]), text_, k + 1)

\* tokenize(text) on a newly constructed DFATokenizer, run alone
tokenize(text_) == normalize(flush(scan(reset(init), text_, 1)).tokens)

\* ---- the state ----
Proc == {1, 2}

VARIABLES
    state,      \* state[o]: self.state of instance o
    current,    \* current[o]: self.current of instance o
    tokens,     \* tokens[l]: the content of list object l
    pc,         \* pc[p]: where caller p is: "idle" (between calls), "scan" (in
                \*   the loop over text), "norm" (after the flush), "done"
                \*   (tokenize has returned)
    text,       \* text[p]: the argument of p's call
    i,          \* i[p]: how many characters of text[p] the loop has consumed
    ret,        \* ret[p]: the list the call of p returned
    entry,      \* entry[p]: self.state of p's instance when the call was entered,
                \*   "new" for the first call on the instance
    used,       \* used[o]: tokenize has been called on instance o before
    my_tokens   \* my_tokens[p]: the returned list caller p holds in my_tokens:
                \*   the list object (list) and what it held when it was
                \*   returned (seen)

vars == <<state, current, tokens, pc, text, i, ret, entry, used, my_tokens>>

\* tokens as a class attribute: one list object shared by every instance
tokensOf_shared(o) == 1

\* __init__: the list object self.tokens of instance o refers to
tokensOf(o) == o

\* the fields of instance o as a record
fields(o) ==
    [state |-> state[o], current |-> current[o], tokens |-> tokens[tokensOf(o)]]

\* the fields of instance o, read in the next state
fields_next(o) ==
    [state |-> state'[o], current |-> current'[o], tokens |-> tokens'[tokensOf(o)]]

\* assign the record self to the fields of instance o
store(o, self) ==
    /\ state' = [state EXCEPT ![o] = self.state]
    /\ current' = [current EXCEPT ![o] = self.current]
    /\ tokens' = [tokens EXCEPT ![tokensOf(o)] = self.tokens]

\* ---- list objects ----
\* A returned list is a list object: either the list norm that the call built
\* (nothing else refers to it, so it is held by value) or a list object that
\* an instance also refers to. The Tok objects that norm shares with
\* self.tokens are never assigned to, so tokens are held by value.
noList == [obj |-> "none", items |-> <<>>]

\* tokenize returning self.tokens itself, not a new list
returned_selfTokens(p, items) == [obj |-> "self.tokens", items |-> <<>>]

\* tokenize, "norm = []" ... "return norm": the list object the call returns
returned(p, items) == [obj |-> "norm", items |-> items]

\* what the list object l, held by caller p, holds now
contentOf(p, l) ==
    IF l.obj = "self.tokens" THEN tokens[tokensOf(p)] ELSE l.items

Init ==
    /\ state = [o \in Proc |-> init.state]
    /\ current = [o \in Proc |-> init.current]
    /\ tokens = [l \in Proc |-> init.tokens]
    /\ pc = [p \in Proc |-> "idle"]
    /\ text = [p \in Proc |-> <<>>]
    /\ i = [p \in Proc |-> 0]
    /\ ret = [p \in Proc |-> <<>>]
    /\ entry = [p \in Proc |-> "new"]
    /\ used = [o \in Proc |-> FALSE]
    /\ my_tokens = [p \in Proc |-> [list |-> noList, seen |-> <<>>]]

\* caller p calls tokenizer.tokenize(s): the call is entered and reset() runs
Call(p, s) ==
    /\ pc[p] = "idle"
    /\ pc' = [pc EXCEPT ![p] = "scan"]
    /\ text' = [text EXCEPT ![p] = s]
    /\ i' = [i EXCEPT ![p] = 0]
    /\ ret' = [ret EXCEPT ![p] = <<>>]
    /\ entry' = [entry EXCEPT ![p] = IF used[p] THEN state[p] ELSE "new"]
    /\ used' = [used EXCEPT ![p] = TRUE]
    /\ store(p, reset(fields(p)))
    /\ UNCHANGED my_tokens

\* the loop with a hand-moved cursor, where leaving a run emits and leaves
\* the cursor on ch for the next iteration, self.state untouched
Scan_noAdvance(p) ==
    /\ pc[p] = "scan"
    /\ i[p] < Len(text[p])
    /\ LET self == fields(p)
           ch == text[p][i[p] + 1]
           leaves == \/ self.state = "WORD" /\ ~(isalpha(ch) \/ ch = "'")
                     \/ self.state = "NUMBER" /\ ~isdigit(ch)
       IN  IF leaves
           THEN /\ store(p, emit(self, self.state))
                /\ i' = i
           ELSE /\ store(p, step(self, ch))
                /\ i' = [i EXCEPT ![p] = i[p] + 1]
    /\ UNCHANGED <<pc, text, ret, entry, used, my_tokens>>

\* one iteration of the loop over text
Scan(p) ==
    /\ pc[p] = "scan"
    /\ i[p] < Len(text[p])
    /\ i' = [i EXCEPT ![p] = i[p] + 1]
    /\ store(p, step(fields(p), text[p][i[p] + 1]))
    /\ UNCHANGED <<pc, text, ret, entry, used, my_tokens>>

\* the loop is over: the flush of the pending run
Flush(p) ==
    /\ pc[p] = "scan"
    /\ i[p] = Len(text[p])
    /\ pc' = [pc EXCEPT ![p] = "norm"]
    /\ store(p, flush(fields(p)))
    /\ UNCHANGED <<text, i, ret, entry, used, my_tokens>>

\* the normalisation loop and the return
Return(p) ==
    /\ pc[p] = "norm"
    /\ pc' = [pc EXCEPT ![p] = "done"]
    /\ ret' = [ret EXCEPT ![p] = normalize(tokens[tokensOf(p)])]
    /\ UNCHANGED <<state, current, tokens, text, i, entry, used, my_tokens>>

\* main: the caller is through with the returned list and goes on to the next
\* sentence; the instance keeps its fields
Release(p) ==
    /\ pc[p] = "done"
    /\ pc' = [pc EXCEPT ![p] = "idle"]
    /\ text' = [text EXCEPT ![p] = <<>>]
    /\ i' = [i EXCEPT ![p] = 0]
    /\ ret' = [ret EXCEPT ![p] = <<>>]
    /\ entry' = [entry EXCEPT ![p] = "new"]
    /\ UNCHANGED <<state, current, tokens, used, my_tokens>>

\* main, "my_tokens = tokenizer.tokenize(s)": the returned list is assigned
\* to my_tokens, which held the list of the call before until now
Assign(p) ==
    /\ pc[p] = "done"
    /\ LET l == returned(p, ret[p]) IN
       my_tokens' = [my_tokens EXCEPT ![p] = [list |-> l, seen |-> contentOf(p, l)]]
    /\ UNCHANGED <<state, current, tokens, pc, text, i, ret, entry, used>>

\* main: one caller, one instance, one call after the other
Next ==
    \/ \E s \in Texts : Call(1, s)
    \/ Scan(1)
    \/ Flush(1)
    \/ Return(1)
    \/ Release(1)

Spec == Init /\ [][Next]_vars

\* the call runs to completion: no step of it is postponed for ever
FairSpec == Spec /\ WF_vars(Scan(1)) /\ WF_vars(Flush(1)) /\ WF_vars(Return(1))

\* two callers, each on its own instance, their steps interleaved
NextConc ==
    \E p \in Proc :
        \/ \E s \in TextsConc : Call(p, s)
        \/ Scan(p)
        \/ Flush(p)
        \/ Return(p)
        \/ Release(p)

SpecConc == Init /\ [][NextConc]_vars

\* main with my_tokens: one caller, one instance; the list a call returned
\* stays in my_tokens while later calls run
NextKeep ==
    \/ \E s \in TextsKeep : Call(1, s)
    \/ Scan(1)
    \/ Flush(1)
    \/ Return(1)
    \/ Assign(1)
    \/ Release(1)

SpecKeep == Init /\ [][NextKeep]_vars

\* ---- the claims ----
Modes == {"START", "WORD", "NUMBER"}

\* C1: every call of tokenize terminates: each iteration of the loop moves the
\* cursor on by exactly one character and leaves the automaton in one of its
\* three modes (there is no reject state), and a call that is in its loop
\* reaches its return with the cursor at len(text).
C1_Terminates ==
    /\ [][pc[1] = "scan" /\ pc'[1] = "scan" => i'[1] = i[1] + 1]_vars
    /\ [](state[1] \in Modes /\ i[1] <= Len(text[1]))
    /\ (pc[1] = "scan") ~> (pc[1] = "done" /\ i[1] = Len(text[1]))

C1_Witness ==
    /\ pc[1] = "done"
    /\ Len(text[1]) = MaxLen
    /\ i[1] = MaxLen
    /\ Len(ret[1]) = MaxLen

\* C2: in every state of a call and in the returned list, a WORD or NUMBER
\* token has a non-empty text and a SYMBOL token a text of one character.
WellSized(t) ==
    /\ t.type \in {"WORD", "NUMBER", "SYMBOL"}
    /\ t.type \in {"WORD", "NUMBER"} => Len(t.value) >= 1
    /\ t.type = "SYMBOL" => Len(t.value) = 1

C2_TokenSizes ==
    \A p \in Proc :
        /\ \A k \in 1..Len(tokens[tokensOf(p)]) : WellSized(tokens[tokensOf(p)][k])
        /\ \A k \in 1..Len(ret[p]) : WellSized(ret[p][k])

C2_Witness ==
    /\ pc[1] = "done"
    /\ Len(ret[1]) = 3
    /\ {ret[1][k].type : k \in 1..3} = {"WORD", "NUMBER", "SYMBOL"}

\* C3: whatever calls were made on the instance before, tokenize(s) returns
\* what a newly constructed instance returns for s.
C3_SameAsFresh == pc[1] = "done" => ret[1] = tokenize(text[1])

\* a call has returned tokens on an instance whose previous call ended
\* inside a word
C3_Witness ==
    /\ pc[1] = "done"
    /\ entry[1] = "WORD"
    /\ ret[1] # <<>>

C5_ConcSameAsAlone ==
    \A p \in Proc : pc[p] = "done" => ret[p] = tokenize(text[p])

\* caller 1 has returned while caller 2 is in the middle of its loop
C5_Witness ==
    /\ pc[1] = "done"
    /\ Len(ret[1]) = 2
    /\ pc[2] = "scan"
    /\ i[2] = 1
    /\ Len(text[2]) = 2
    /\ tokens[tokensOf(2)] # <<>>

\* C6: a character that ends a word or a number is handled, after the
\* buffered token is emitted, exactly as the START branch handles it; it is
\* never dropped: whitespace is ignored, a digit after a word opens a number,
\* a letter after a number opens a word, anything else becomes a SYMBOL.
Leaves(self, ch) ==
    \/ self.state = "WORD" /\ ~(isalpha(ch) \/ ch = "'")
    \/ self.state = "NUMBER" /\ ~isdigit(ch)

AsFromStart(self, ch) ==
    startBranch([emit(self, self.state) EXCEPT !.state = "START"], ch)

C6_ReprocessAsStart ==
    [][\A p \in Proc :
        (pc[p] = "scan" /\ i'[p] = i[p] + 1 /\ Leaves(fields(p), text[p][i'[p]])) =>
            LET self == fields(p)
                ch == text[p][i'[p]]
                after == fields_next(p)
                emitted == Append(self.tokens, Tok(self.state, self.current))
            IN  /\ after = AsFromStart(self, ch)
                /\ isspace(ch) =>
                       after = [state |-> "START", current |-> <<>>, tokens |-> emitted]
                /\ isdigit(ch) =>
                       after = [state |-> "NUMBER", current |-> <<ch>>, tokens |-> emitted]
                /\ isalpha(ch) =>
                       after = [state |-> "WORD", current |-> <<ch>>, tokens |-> emitted]
                /\ ~(isspace(ch) \/ isdigit(ch) \/ isalpha(ch)) =>
                       after = [state |-> "START", current |-> <<>>,
                                tokens |-> Append(emitted, Tok("SYMBOL", <<ch>>))]
    ]_vars

\* a digit has ended a word and opened a number
C6_Witness ==
    /\ pc[1] = "scan"
    /\ i[1] = 2
    /\ isalpha(text[1][1])
    /\ isdigit(text[1][2])
    /\ fields(1) = [state |-> "NUMBER", current |-> <<text[1][2]>>,
                    tokens |-> <<Tok("WORD", <<text[1][1]>>)>>]

\* C7: when the loop ends in mode WORD or NUMBER the buffer is emitted as the
\* last token, of that kind; when it ends in START nothing is appended; at
\* the return the buffer is empty and a pending run is the last token of the
\* returned list.
C7_Flush ==
    /\ [][\A p \in Proc :
            (pc[p] = "scan" /\ pc'[p] = "norm") =>
                LET self == fields(p)
                    after == fields_next(p)
                IN  /\ after.current = <<>>
                    /\ after.state = self.state
                    /\ self.state \in {"WORD", "NUMBER"} =>
                           /\ self.current # <<>>
                           /\ after.tokens =
                                  Append(self.tokens, Tok(self.state, self.current))
                    /\ self.state = "START" => after.tokens = self.tokens
       ]_vars
    /\ [](\A p \in Proc :
            pc[p] = "done" =>
                /\ current[p] = <<>>
                /\ state[p] \in {"WORD", "NUMBER"} =>
                       /\ ret[p] # <<>>
                       /\ ret[p][Len(ret[p])].type = state[p])

\* a call whose text ended inside a number has returned
C7_Witness ==
    /\ pc[1] = "done"
    /\ state[1] = "NUMBER"
    /\ Len(ret[1]) = 2
    /\ ret[1][2] = Tok("NUMBER", <<text[1][Len(text[1])]>>)

\* C8: a text of whitespace only, the empty text included, gives the empty
\* list; in mode START a whitespace character changes no field.
AllSpace(text_) == \A k \in 1..Len(text_) : isspace(text_[k])

C8_WhitespaceOnly ==
    \A p \in Proc :
        /\ pc[p] = "done" /\ AllSpace(text[p]) => ret[p] = <<>>
        /\ (pc[p] = "scan" /\ i[p] < Len(text[p]) /\ state[p] = "START"
               /\ isspace(text[p][i[p] + 1])) =>
                step(fields(p), text[p][i[p] + 1]) = fields(p)

C8_Witness ==
    /\ pc[1] = "done"
    /\ Len(text[1]) = 2
    /\ AllSpace(text[1])
    /\ ret[1] = <<>>

\* C9: the returned list has the length, the kinds and the order of the
\* emitted tokens; a WORD has the lower-cased text of the emitted one, a
\* NUMBER or SYMBOL the emitted text itself.
C9_Normalisation ==
    \A p \in Proc :
        pc[p] = "done" =>
            LET emitted == tokens[tokensOf(p)] IN
            /\ Len(ret[p]) = Len(emitted)
            /\ \A k \in 1..Len(emitted) :
                   /\ ret[p][k].type = emitted[k].type
                   /\ emitted[k].type = "WORD" =>
                          ret[p][k].value = lower(emitted[k].value)
                   /\ emitted[k].type # "WORD" =>
                          ret[p][k].value = emitted[k].value

\* a word with an upper-case letter came back changed, next to a symbol that
\* has a lower case and came back as it was
C9_Witness ==
    /\ pc[1] = "done"
    /\ Len(ret[1]) = 2
    /\ tokens[tokensOf(1)][1] = Tok("WORD", <<"A">>)
    /\ ret[1][1] = Tok("WORD", <<"a">>)
    /\ ret[1][2] = Tok("SYMBOL", <<"(A)">>)

\* C10: tokenize cannot be undone: a text with a leading whitespace character
\* returns what the text without it returns, and a text with upper-case
\* letters what the text with these letters in lower case returns; so
\* different texts return the same list.
lowerLetters(text_) ==
    [k \in 1..Len(text_) |->
        IF isalpha(text_[k]) THEN lowerChar(text_[k]) ELSE text_[k]]

C10_NotReversible ==
    pc[1] = "done" =>
        /\ (text[1] # <<>> /\ isspace(Head(text[1]))) =>
               tokenize(Tail(text[1])) = ret[1]
        /\ tokenize(lowerLetters(text[1])) = ret[1]

\* the call returned a token for a text that has both a leading whitespace
\* character and an upper-case letter
C10_Witness ==
    /\ pc[1] = "done"
    /\ Len(text[1]) = 3
    /\ isspace(text[1][1])
    /\ lowerLetters(text[1]) # text[1]
    /\ ret[1] # <<>>

\* the tokens a step appended: what after.tokens holds beyond self.tokens
Added(self, after) ==
    SubSeq(after.tokens, Len(self.tokens) + 1, Len(after.tokens))

\* C11: one character triggers at most one exit-and-reprocess: a step keeps
\* the tokens it found and appends at most two; the buffer is emitted at most
\* once, as the first of them and only by a character that leaves the run; a
\* second appended token is the SYMBOL of that character, never a second
\* token from the buffer.
C11_OneReprocess ==
    [][\A p \in Proc :
        (pc[p] = "scan" /\ i'[p] = i[p] + 1) =>
            LET self == fields(p)
                ch == text[p][i'[p]]
                after == fields_next(p)
                added == Added(self, after)
                fromBuffer == {k \in 1..Len(added) : added[k].type \in {"WORD", "NUMBER"}}
            IN  /\ Len(after.tokens) >= Len(self.tokens)
                /\ SubSeq(after.tokens, 1, Len(self.tokens)) = self.tokens
                /\ Len(added) <= 2
                /\ fromBuffer \subseteq {1}
                /\ Leaves(self, ch) <=> fromBuffer = {1}
                /\ fromBuffer = {1} => added[1] = Tok(self.state, self.current)
                /\ \A k \in 1..Len(added) :
                       k \notin fromBuffer => added[k] = Tok("SYMBOL", <<ch>>)
                /\ Len(added) = 2 => added[2].type = "SYMBOL"
    ]_vars

\* one step has appended two tokens: the number and the symbol that ended it
C11_Witness ==
    /\ pc[1] = "scan"
    /\ i[1] = 2
    /\ isdigit(text[1][1])
    /\ fields(1) = [state |-> "START", current |-> <<>>,
                    tokens |-> <<Tok("NUMBER", <<text[1][1]>>),
                                 Tok("SYMBOL", <<text[1][2]>>)>>]

\* C12: an apostrophe extends the token only in mode WORD (the buffer grows,
\* the mode stays WORD); in START it becomes a SYMBOL and the mode stays
\* START; in NUMBER the number is emitted, then the apostrophe as a SYMBOL,
\* and the mode is START.
C12_Apostrophe ==
    [][\A p \in Proc :
        (pc[p] = "scan" /\ i'[p] = i[p] + 1 /\ text[p][i'[p]] = "'") =>
            LET self == fields(p)
                after == fields_next(p)
                symbol == Tok("SYMBOL", <<"'">>)
            IN  /\ self.state = "WORD" =>
                       after = [self EXCEPT !.current = Append(@, "'")]
                /\ self.state = "START" =>
                       after = [self EXCEPT !.tokens = Append(@, symbol)]
                /\ self.state = "NUMBER" =>
                       after = [state |-> "START", current |-> <<>>,
                                tokens |-> self.tokens
                                    \o <<Tok("NUMBER", self.current), symbol>>]
    ]_vars

\* a word holds two apostrophes in a row, the second its last character
C12_Witness ==
    /\ pc[1] = "done"
    /\ Len(text[1]) = 3
    /\ text[1][2] = "'"
    /\ text[1][3] = "'"
    /\ ret[1] = <<Tok("WORD", lower(text[1]))>>

\* C13: at every step boundary mode START implies an empty buffer; during
\* the scan mode WORD or NUMBER implies a non-empty buffer, so that emit's
\* guard never holds a token back when a run is left or flushed.
C13_BufferAndMode ==
    \A p \in Proc :
        /\ state[p] = "START" => current[p] = <<>>
        /\ (pc[p] = "scan" /\ state[p] \in {"WORD", "NUMBER"}) => current[p] # <<>>
        /\ (pc[p] = "scan" /\ state[p] \in {"WORD", "NUMBER"}) =>
               emit(fields(p), state[p]).tokens # tokens[tokensOf(p)]

\* the scan is back in START with an empty buffer after a word was left
C13_Witness ==
    /\ pc[1] = "scan"
    /\ i[1] = 2
    /\ state[1] = "START"
    /\ current[1] = <<>>
    /\ Len(tokens[tokensOf(1)]) = 1
    /\ tokens[tokensOf(1)][1].type = "WORD"

\* C14: the shape of the tokens emitted during the scan: a WORD starts with a
\* letter and holds letters and apostrophes only, a NUMBER holds digits
\* only, the character of a SYMBOL is neither whitespace nor a letter nor a
\* digit; no token holds a whitespace character.
WellFormed(t) ==
    /\ t.type \in {"WORD", "NUMBER", "SYMBOL"}
    /\ \A k \in 1..Len(t.value) : ~isspace(t.value[k])
    /\ t.type = "WORD" =>
           /\ t.value # <<>>
           /\ isalpha(t.value[1])
           /\ \A k \in 1..Len(t.value) : isalpha(t.value[k]) \/ t.value[k] = "'"
    /\ t.type = "NUMBER" => \A k \in 1..Len(t.value) : isdigit(t.value[k])
    /\ t.type = "SYMBOL" =>
           /\ Len(t.value) = 1
           /\ ~(isspace(t.value[1]) \/ isalpha(t.value[1]) \/ isdigit(t.value[1]))

C14_TokenShapes ==
    \A p \in Proc :
        \A k \in 1..Len(tokens[tokensOf(p)]) : WellFormed(tokens[tokensOf(p)][k])

\* a number, then a word with an apostrophe, were emitted
C14_Witness ==
    /\ pc[1] = "norm"
    /\ Len(text[1]) = 3
    /\ tokens[tokensOf(1)] =
           <<Tok("NUMBER", <<text[1][1]>>), Tok("WORD", <<text[1][2], "'">>)>>

\* the texts of the tokens, one after the other
RECURSIVE Concat(_)
Concat(toks) ==
    IF toks = <<>> THEN <<>> ELSE Head(toks).value \o Concat(Tail(toks))

\* text_ without its whitespace characters
RECURSIVE NonSpace(_)
NonSpace(text_) ==
    IF text_ = <<>> THEN <<>>
    ELSE IF isspace(Head(text_)) THEN NonSpace(Tail(text_))
    ELSE <<Head(text_)>> \o NonSpace(Tail(text_))

\* C15: no character is lost, doubled or moved: in every state of a call the
\* texts of the emitted tokens followed by the buffer are the consumed part
\* of the input without its whitespace, and once the flush is done the texts
\* of the emitted tokens are the whole input without its whitespace.
C15_NothingLost ==
    \A p \in Proc :
        /\ pc[p] # "idle" =>
               Concat(tokens[tokensOf(p)]) \o current[p]
                   = NonSpace(SubSeq(text[p], 1, i[p]))
        /\ pc[p] \in {"norm", "done"} =>
               Concat(tokens[tokensOf(p)]) = NonSpace(text[p])

\* a text with whitespace in it gave two tokens and lost only the whitespace
C15_Witness ==
    /\ pc[1] = "done"
    /\ Len(text[1]) = 3
    /\ isspace(text[1][2])
    /\ Len(tokens[tokensOf(1)]) = 2
    /\ Concat(tokens[tokensOf(1)]) = <<text[1][1], text[1][3]>>

\* the place in text_ of its n-th character that is not whitespace
RECURSIVE PlaceOf(_, _, _)
PlaceOf(text_, n, k) ==
    IF k > Len(text_) THEN k
    ELSE IF isspace(text_[k]) THEN PlaceOf(text_, n, k + 1)
    ELSE IF n = 1 THEN k
    ELSE PlaceOf(text_, n - 1, k + 1)

\* how many characters the first k tokens hold
RECURSIVE Size(_, _)
Size(toks, k) == IF k = 0 THEN 0 ELSE Size(toks, k - 1) + Len(toks[k].value)

\* the places in text_ of the first and the last character of token k (by
\* C15 the tokens hold the characters of text_ that are not whitespace, in
\* their order)
FirstPlace(text_, toks, k) == PlaceOf(text_, Size(toks, k - 1) + 1, 1)
LastPlace(text_, toks, k) == PlaceOf(text_, Size(toks, k), 1)

\* C16: runs are maximal: when two tokens next to each other are both WORD or
\* both NUMBER, the input has whitespace between the last character of the
\* first and the first character of the second; a text without whitespace
\* never gives two such tokens.
C16_MaximalRuns ==
    \A p \in Proc :
        pc[p] = "done" =>
            \A k \in 1..(Len(ret[p]) - 1) :
                (ret[p][k].type = ret[p][k + 1].type
                    /\ ret[p][k].type \in {"WORD", "NUMBER"}) =>
                    \E j \in 1..Len(text[p]) :
                        /\ LastPlace(text[p], tokens[tokensOf(p)], k) < j
                        /\ j < FirstPlace(text[p], tokens[tokensOf(p)], k + 1)
                        /\ isspace(text[p][j])

\* two numbers next to each other, whitespace between them in the input
C16_Witness ==
    /\ pc[1] = "done"
    /\ Len(text[1]) = 3
    /\ isspace(text[1][2])
    /\ Len(ret[1]) = 2
    /\ ret[1][1].type = "NUMBER"
    /\ ret[1][2].type = "NUMBER"

\* C17: a list that tokenize returned is not changed by later calls on the
\* instance: the list in my_tokens holds, in every later state, the tokens it
\* held when it was returned.
C17_ReturnedListKept ==
    \A p \in Proc :
        my_tokens[p].list # noList =>
            contentOf(p, my_tokens[p].list) = my_tokens[p].seen

\* my_tokens holds the tokens of an earlier call while a later call on the
\* instance has returned other tokens
C17_Witness ==
    /\ pc[1] = "done"
    /\ entry[1] # "new"
    /\ Len(my_tokens[1].seen) = 2
    /\ ret[1] # <<>>
    /\ ret[1] # my_tokens[1].seen
    /\ tokens[tokensOf(1)] # my_tokens[1].seen

====
